---- MODULE Spec2Model ----
(***************************************************************************)
(* A model of the Lexi Jagriti API proxy (src/services.py, src/utils.py,   *)
(* src/models.py, src/config.py, src/main.py, src/app/api/routers/*.py).    *)
(*                                                                         *)
(* Text is a sequence of one-character strings.  A JSON value met in an    *)
(* upstream body is a record [t, s, n]: t is "none" (null or a missing     *)
(* key), "str" (s is the text) or "int" (n is the number).                 *)
(*                                                                         *)
(* The service runs on one asyncio event loop: the code between two awaits *)
(* is one atomic step.  Every handler that awaits an upstream call is      *)
(* therefore two actions: the part up to the await (the call is issued)    *)
(* and the part after it (the upstream outcome is consumed).               *)
(***************************************************************************)
EXTENDS Integers, Sequences, FiniteSets, TLC

VARIABLES
    HOST,               \* Config.HOST, read once from the environment
    document_store,     \* JagritiService._document_store
    reqs,               \* the search requests in flight, one per slot
    last,               \* what the search or document endpoint just did
    states_cache,       \* JagritiService._states_cache
    commissions_cache,  \* JagritiService._commissions_cache
    calls,              \* get_states / get_commissions calls awaiting their GET
    fetches,            \* upstream GETs issued so far, per cache key
    ret                 \* what get_states or get_commissions just did

vars == <<HOST, document_store, reqs, last, states_cache, commissions_cache,
          calls, fetches, ret>>

searchVars == <<HOST, document_store, reqs, last>>
cacheVars == <<states_cache, commissions_cache, calls, fetches, ret>>

(***************************************************************************)
(* Bounds of the model.                                                    *)
(***************************************************************************)
MaxInFlight == 2    \* search requests in flight at once
MaxCases == 2       \* case entries in one upstream response
MaxCalls == 2       \* get_states / get_commissions calls in flight at once
MaxFetches == 2     \* upstream GETs counted per cache key
MaxItems == 2       \* entries in one upstream state / commission listing

(***************************************************************************)
(* JSON values and Python's truthiness.                                    *)
(***************************************************************************)
None == [t |-> "none", s |-> <<>>, n |-> 0]
Str(s) == [t |-> "str", s |-> s, n |-> 0]
Num(n) == [t |-> "int", s |-> <<>>, n |-> n]

IsStr(v) == v.t = "str"

\* bool(v): None, "" and 0 are false.
Truthy(v) ==
    CASE v.t = "none" -> FALSE
      [] v.t = "str" -> v.s # <<>>
      [] v.t = "int" -> v.n # 0
      [] v.t = "missing" -> FALSE

\* a or b
Or(a, b) == IF Truthy(a) THEN a ELSE b

(***************************************************************************)
(* src/utils.py                                                            *)
(***************************************************************************)
Whitespace == {" ", "\t", "\n"}

RECURSIVE lstrip(_)
lstrip(s) ==
    IF s # <<>> /\ Head(s) \in Whitespace THEN lstrip(Tail(s)) ELSE s

RECURSIVE rstrip(_)
rstrip(s) ==
    IF s # <<>> /\ s[Len(s)] \in Whitespace
    THEN rstrip(SubSeq(s, 1, Len(s) - 1))
    ELSE s

\* str.strip()
strip(s) == rstrip(lstrip(s))

\* re.sub(r'\s+', ' ', s): every maximal run of whitespace becomes one space.
RECURSIVE collapse(_)
collapse(s) ==
    IF s = <<>> THEN <<>>
    ELSE IF Head(s) \in Whitespace
         THEN <<" ">> \o collapse(lstrip(s))
         ELSE <<Head(s)>> \o collapse(Tail(s))

\* clean_text without the re.sub: the text is trimmed only.
clean_text_trimming(s) == IF s = <<>> THEN <<>> ELSE strip(s)

\* clean_text on text.
clean_text(s) == IF s = <<>> THEN <<>> ELSE collapse(strip(s))

\* clean_text on any value: a falsy value gives "", a truthy value that is
\* not text has no strip() and raises AttributeError.
clean_text_raises(v) == Truthy(v) /\ ~IsStr(v)
clean_text_value(v) == IF ~Truthy(v) THEN <<>> ELSE clean_text(v.s)

\* validate_search_value without the check of the trimmed length.
validate_search_value_short(search_value) ==
    ~(search_value = <<>>)

validate_search_value(search_value) ==
    ~(search_value = <<>> \/ Len(strip(search_value)) < 2)

LowerCase == <<"a", "b", "c", "d", "e", "f", "g", "h", "i", "j", "k", "l", "m",
               "n", "o", "p", "q", "r", "s", "t", "u", "v", "w", "x", "y", "z">>
UpperCase == <<"A", "B", "C", "D", "E", "F", "G", "H", "I", "J", "K", "L", "M",
               "N", "O", "P", "Q", "R", "S", "T", "U", "V", "W", "X", "Y", "Z">>

upper_char(c) ==
    IF \E i \in 1..26 : LowerCase[i] = c
    THEN UpperCase[CHOOSE i \in 1..26 : LowerCase[i] = c]
    ELSE c

\* str.upper()
upper(s) == [i \in 1..Len(s) |-> upper_char(s[i])]

normalize_state_name(state_name) == strip(upper(state_name))

normalize_commission_name(commission_name) == strip(commission_name)

(***************************************************************************)
(* Calendar dates, [y, m, d], and their rendering.                         *)
(***************************************************************************)
Date(y, m, d) == [y |-> y, m |-> m, d |-> d]

IsLeap(y) == (y % 4 = 0 /\ y % 100 # 0) \/ y % 400 = 0

DaysInMonth(y, m) ==
    CASE m \in {4, 6, 9, 11} -> 30
      [] m = 2 -> IF IsLeap(y) THEN 29 ELSE 28
      [] OTHER -> 31

PrevDay(dt) ==
    IF dt.d > 1 THEN Date(dt.y, dt.m, dt.d - 1)
    ELSE IF dt.m > 1 THEN Date(dt.y, dt.m - 1, DaysInMonth(dt.y, dt.m - 1))
    ELSE Date(dt.y - 1, 12, 31)

\* date - timedelta(days=n)
RECURSIVE MinusDays(_, _)
MinusDays(dt, n) == IF n = 0 THEN dt ELSE MinusDays(PrevDay(dt), n - 1)

DigitChars == <<"0", "1", "2", "3", "4", "5", "6", "7", "8", "9">>

\* The decimal digits of n >= 0, zero-padded to at least `width` characters.
RECURSIVE Decimal(_, _)
Decimal(n, width) ==
    IF n < 10 /\ width <= 1 THEN <<DigitChars[n + 1]>>
    ELSE Decimal(n \div 10, width - 1) \o <<DigitChars[(n % 10) + 1]>>

\* A date field of the request is a date or NoDate (None).
NoDate == Date(0, 0, 0)

format_date_for_jagriti(date_obj) ==
    IF date_obj = NoDate THEN <<>>
    ELSE Decimal(date_obj.y, 4) \o <<"-">> \o Decimal(date_obj.m, 2)
         \o <<"-">> \o Decimal(date_obj.d, 2)

get_default_date_range(today) == <<MinusDays(today, 30), today>>

(***************************************************************************)
(* int(commission_id): surrounding whitespace is dropped, one sign is      *)
(* allowed, and what remains must be decimal digits.                       *)
(***************************************************************************)
IsDigit(c) == \E i \in 1..10 : DigitChars[i] = c
DigitValue(c) == (CHOOSE i \in 1..10 : DigitChars[i] = c) - 1

Unsigned(s) ==
    IF s # <<>> /\ Head(s) \in {"+", "-"} THEN Tail(s) ELSE s

\* int_raises taking the empty text for a number.
int_raises_lenient(s) ==
    LET u == Unsigned(strip(s))
    IN  \E i \in 1..Len(u) : ~IsDigit(u[i])

int_raises(s) ==
    LET u == Unsigned(strip(s))
    IN  u = <<>> \/ \E i \in 1..Len(u) : ~IsDigit(u[i])

RECURSIVE DigitsValue(_)
DigitsValue(u) ==
    IF u = <<>> THEN 0
    ELSE 10 * DigitsValue(SubSeq(u, 1, Len(u) - 1)) + DigitValue(u[Len(u)])

int(s) ==
    LET t == strip(s)
    IN  IF t # <<>> /\ Head(t) = "-" THEN 0 - DigitsValue(Unsigned(t))
        ELSE DigitsValue(Unsigned(t))

(***************************************************************************)
(* base64.b64decode(s, validate=False), as binascii.a2b_base64 does it in  *)
(* its non-strict mode: characters outside the alphabet are skipped, a     *)
(* completed pad sequence ends the decoding, and input that ends inside a  *)
(* quad raises binascii.Error.                                             *)
(***************************************************************************)
B64Alphabet ==
    <<"A", "B", "C", "D", "E", "F", "G", "H", "I", "J", "K", "L", "M",
      "N", "O", "P", "Q", "R", "S", "T", "U", "V", "W", "X", "Y", "Z",
      "a", "b", "c", "d", "e", "f", "g", "h", "i", "j", "k", "l", "m",
      "n", "o", "p", "q", "r", "s", "t", "u", "v", "w", "x", "y", "z",
      "0", "1", "2", "3", "4", "5", "6", "7", "8", "9", "+", "/">>

IsB64(c) == \E i \in 1..64 : B64Alphabet[i] = c
B64Index(c) == (CHOOSE i \in 1..64 : B64Alphabet[i] = c) - 1

RECURSIVE a2b_base64(_, _, _, _, _)
a2b_base64(s, quad_pos, leftchar, pads, out) ==
    IF s = <<>> THEN [ok |-> quad_pos = 0, bytes |-> out]
    ELSE LET c == Head(s) IN
         IF c = "="
         THEN IF quad_pos >= 2 /\ quad_pos + pads + 1 >= 4
              THEN [ok |-> TRUE, bytes |-> out]
              ELSE a2b_base64(Tail(s), quad_pos, leftchar,
                              IF quad_pos >= 2 THEN pads + 1 ELSE pads, out)
         ELSE IF ~IsB64(c)
         THEN a2b_base64(Tail(s), quad_pos, leftchar, pads, out)
         ELSE LET v == B64Index(c) IN
              CASE quad_pos = 0 -> a2b_base64(Tail(s), 1, v, 0, out)
                [] quad_pos = 1 ->
                     a2b_base64(Tail(s), 2, v % 16, 0,
                                Append(out, (leftchar * 4 + v \div 16) % 256))
                [] quad_pos = 2 ->
                     a2b_base64(Tail(s), 3, v % 4, 0,
                                Append(out, (leftchar * 16 + v \div 4) % 256))
                [] quad_pos = 3 ->
                     a2b_base64(Tail(s), 0, 0, 0,
                                Append(out, (leftchar * 64 + v) % 256))

b64decode(s) == a2b_base64(s, 0, 0, 0, <<>>)

\* s.split(",")[-1]: what follows the last comma, or all of s.
RECURSIVE after_last_comma(_)
after_last_comma(s) ==
    IF \E i \in 1..Len(s) : s[i] = ","
    THEN after_last_comma(Tail(s))
    ELSE s

(***************************************************************************)
(* hashlib.sha256(b).hexdigest().  The digest is modelled by a stand-in    *)
(* that is, like SHA-256 on any set of documents one can write down,       *)
(* deterministic and free of collisions: 64 hex characters that spell the  *)
(* length of b and then its bytes.  No claim depends on the bit pattern.   *)
(***************************************************************************)
HexChars == <<"0", "1", "2", "3", "4", "5", "6", "7",
              "8", "9", "a", "b", "c", "d", "e", "f">>

HexByte(b) == <<HexChars[(b \div 16) + 1], HexChars[(b % 16) + 1]>>

RECURSIVE HexBytes(_)
HexBytes(bs) == IF bs = <<>> THEN <<>> ELSE HexByte(Head(bs)) \o HexBytes(Tail(bs))

sha256_hexdigest(bs) ==
    LET h == HexByte(Len(bs) % 256) \o HexBytes(bs)
    IN  [i \in 1..64 |-> IF i <= Len(h) THEN h[i] ELSE "0"]

\* hexdigest()[:2]
document_id_short(document_bytes) == SubSeq(sha256_hexdigest(document_bytes), 1, 2)

\* hexdigest()[:32]
document_id_of(document_bytes) == SubSeq(sha256_hexdigest(document_bytes), 1, 32)

(***************************************************************************)
(* src/config.py and the link of a recovered document.                     *)
(***************************************************************************)
PORT == 8000

Wildcard == <<"0", ".", "0", ".", "0", ".", "0">>
Loopback == <<"1", "2", "7", ".", "0", ".", "0", ".", "1">>
Localhost == <<"l", "o", "c", "a", "l", "h", "o", "s", "t">>

link_host(h) == IF h \in {Wildcard, Loopback} THEN Localhost ELSE h

LinkScheme == <<"h", "t", "t", "p", ":", "/", "/">>
LinkPath == <<"/", "d", "o", "c", "u", "m", "e", "n", "t", "s", "/">>

\* f"http://{link_host}:{Config.PORT}/documents/{document_id}"
document_url(h, document_id) ==
    LinkScheme \o link_host(h) \o <<":">> \o Decimal(PORT, 1) \o LinkPath
    \o document_id

\* store_put into a store that keeps the newest document only.
store_put_evicting(store, document_id, document_bytes) ==
    [i \in {document_id} |-> document_bytes]

\* self._document_store[document_id] = document_bytes
store_put(store, document_id, document_bytes) ==
    [i \in DOMAIN store \cup {document_id} |->
        IF i = document_id THEN document_bytes ELSE store[i]]

\* recover with the id taken over the bytes and the case number.
recover_keyed_by_case(case, store, h) ==
    LET direct == Or(case.orderDocumentPath, Str(<<>>))
        base64_doc == Or(case.documentBase64, case.judgmentOrderDocumentBase64)
        empty == [link |-> Str(<<>>), store |-> store]
    IN  IF Truthy(direct) THEN [link |-> direct, store |-> store]
        ELSE IF ~Truthy(base64_doc) THEN empty
        ELSE IF ~IsStr(base64_doc) THEN empty
        ELSE LET decoded == b64decode(strip(after_last_comma(base64_doc.s)))
             IN  IF ~decoded.ok THEN empty
                 ELSE IF decoded.bytes = <<>> THEN empty
                 ELSE LET document_id ==
                              document_id_of(decoded.bytes
                                             \o <<Len(case.caseNumber.s)
                                                   + DigitsValue(case.caseNumber.s)>>)
                      IN  [link |-> Str(document_url(h, document_id)),
                           store |-> store_put(store, document_id, decoded.bytes)]

\* recover without the check that the decoded bytes are not empty.
recover_storing_empty(case, store, h) ==
    LET direct == Or(case.orderDocumentPath, Str(<<>>))
        base64_doc == Or(case.documentBase64, case.judgmentOrderDocumentBase64)
        empty == [link |-> Str(<<>>), store |-> store]
    IN  IF Truthy(direct) THEN [link |-> direct, store |-> store]
        ELSE IF ~Truthy(base64_doc) THEN empty
        ELSE IF ~IsStr(base64_doc) THEN empty
        ELSE LET decoded == b64decode(strip(after_last_comma(base64_doc.s)))
             IN  IF ~decoded.ok THEN empty
                 ELSE LET document_id == document_id_of(decoded.bytes)
                      IN  [link |-> Str(document_url(h, document_id)),
                           store |-> store_put(store, document_id, decoded.bytes)]

\* recover looking at the base64 fields before the direct path.
recover_base64_first(case, store, h) ==
    LET direct == Or(case.orderDocumentPath, Str(<<>>))
        base64_doc == Or(case.documentBase64, case.judgmentOrderDocumentBase64)
        empty == [link |-> Str(<<>>), store |-> store]
        decoded == b64decode(strip(after_last_comma(base64_doc.s)))
    IN  IF Truthy(base64_doc) /\ IsStr(base64_doc) /\ decoded.ok /\ decoded.bytes # <<>>
        THEN LET document_id == document_id_of(decoded.bytes)
             IN  [link |-> Str(document_url(h, document_id)),
                  store |-> store_put(store, document_id, decoded.bytes)]
        ELSE IF Truthy(direct) THEN [link |-> direct, store |-> store]
        ELSE empty

\* The document part of one turn of the loop of _parse_api_response: the
\* link of `case` and the store after it.
recover(case, store, h) ==
    LET direct == Or(case.orderDocumentPath, Str(<<>>))
        base64_doc == Or(case.documentBase64, case.judgmentOrderDocumentBase64)
        empty == [link |-> Str(<<>>), store |-> store]
    IN  IF Truthy(direct) THEN [link |-> direct, store |-> store]
        ELSE IF ~Truthy(base64_doc) THEN empty
        ELSE IF ~IsStr(base64_doc) THEN empty    \* no split(): caught
        ELSE LET decoded == b64decode(strip(after_last_comma(base64_doc.s)))
             IN  IF ~decoded.ok THEN empty        \* binascii.Error: caught
                 ELSE IF decoded.bytes = <<>> THEN empty
                 ELSE LET document_id == document_id_of(decoded.bytes)
                      IN  [link |-> Str(document_url(h, document_id)),
                           store |-> store_put(store, document_id, decoded.bytes)]

(***************************************************************************)
(* _parse_api_response.  An entry of the case list is a JSON object, with  *)
(* the ten fields the code reads (None for a missing key), or it is not an *)
(* object at all (obj = FALSE).                                            *)
(***************************************************************************)
\* One turn of the loop: the processed_case dict of `case`.
processed_case(case, document_link) ==
    [case_number |-> Or(case.caseNumber, Str(<<>>)),
     case_stage |-> Or(case.caseStageName, Str(<<>>)),
     filing_date |-> Or(case.caseFilingDate, Str(<<>>)),
     complainant |-> Or(case.complainantName, Str(<<>>)),
     complainant_advocate |-> Or(case.complainantAdvocateName, Str(<<>>)),
     respondent |-> Or(case.respondentName, Str(<<>>)),
     respondent_advocate |-> Or(case.respondentAdvocateName, Str(<<>>)),
     document_link |-> document_link]

ParseError(store) == [status |-> "error", cases |-> <<>>, store |-> store]

\* The loop over cases_list.  An entry that is not an object has no get():
\* the AttributeError leaves the loop and is caught by the outer except,
\* which drops the cases processed so far; what the loop stored stays stored.
RECURSIVE process_cases(_, _, _, _)
process_cases(cases_list, processed_cases, store, h) ==
    IF cases_list = <<>>
    THEN [status |-> "success", cases |-> processed_cases, store |-> store]
    ELSE LET case == Head(cases_list) IN
         IF ~case.obj THEN ParseError(store)
         ELSE LET r == recover(case, store, h)
              IN  process_cases(
                      Tail(cases_list),
                      Append(processed_cases, processed_case(case, r.link)),
                      r.store, h)

(***************************************************************************)
(* An upstream body, response_data: [dict, status, data], where dict tells *)
(* whether the body is a JSON object, status is its "status" value and     *)
(* data = [shape, cases, items] describes its "data" value:                *)
(*   shape "missing"  no "data" key: the default {} is used                *)
(*   shape "dict"     an object; cases tells whether its "cases" key is    *)
(*                    "absent", "null" or a "list" (items)                 *)
(*   shape "list"     the array items                                      *)
(*   shape "other"    null, a string or a number                           *)
(***************************************************************************)
parse_api_response(response_data, store, h) ==
    IF ~response_data.dict THEN ParseError(store)       \* no get(): caught
    ELSE IF response_data.status # Num(200) THEN ParseError(store)
    ELSE LET data == response_data.data IN
         CASE data.shape = "missing" -> process_cases(<<>>, <<>>, store, h)
           [] data.shape = "dict" ->
                CASE data.cases = "absent" -> process_cases(<<>>, <<>>, store, h)
                  [] data.cases = "null" -> ParseError(store)  \* TypeError
                  [] OTHER -> process_cases(data.items, <<>>, store, h)
           [] data.shape = "list" -> process_cases(data.items, <<>>, store, h)
           [] OTHER -> ParseError(store)

(***************************************************************************)
(* _parse_cases: CaseResponse objects of the processed cases.  clean_text  *)
(* raises AttributeError on a truthy value that is not text; a filing_date *)
(* or document_link that is not text fails the validation of CaseResponse  *)
(* (pydantic's ValidationError, a ValueError).                             *)
(***************************************************************************)
CleanedFields ==
    {"case_number", "case_stage", "complainant", "complainant_advocate",
     "respondent", "respondent_advocate"}

case_raises(case_data) ==
    IF \E f \in CleanedFields : clean_text_raises(case_data[f])
    THEN "AttributeError"
    ELSE IF ~IsStr(case_data.filing_date) \/ ~IsStr(case_data.document_link)
    THEN "ValidationError"
    ELSE "none"

CaseResponse(case_data) ==
    [case_number |-> clean_text_value(case_data.case_number),
     case_stage |-> clean_text_value(case_data.case_stage),
     filing_date |-> case_data.filing_date.s,
     complainant |-> clean_text_value(case_data.complainant),
     complainant_advocate |-> clean_text_value(case_data.complainant_advocate),
     respondent |-> clean_text_value(case_data.respondent),
     respondent_advocate |-> clean_text_value(case_data.respondent_advocate),
     document_link |-> case_data.document_link.s]

\* parse_cases with the cases appended in front: the list comes out reversed.
parse_cases_reversed(api_response) ==
    IF api_response.status # "success" THEN [raises |-> "none", cases |-> <<>>]
    ELSE LET cs == api_response.cases
             bad == {i \in 1..Len(cs) : case_raises(cs[i]) # "none"}
         IN  IF bad = {}
             THEN [raises |-> "none",
                   cases |-> [i \in 1..Len(cs) |-> CaseResponse(cs[Len(cs) + 1 - i])]]
             ELSE [raises |-> case_raises(cs[CHOOSE i \in bad : \A j \in bad : i <= j]),
                   cases |-> <<>>]

\* [raises, cases]: the list returned, or the exception that leaves
\* _parse_cases at the first case that raises.
parse_cases(api_response) ==
    IF api_response.status # "success" THEN [raises |-> "none", cases |-> <<>>]
    ELSE LET cs == api_response.cases
             bad == {i \in 1..Len(cs) : case_raises(cs[i]) # "none"}
         IN  IF bad = {}
             THEN [raises |-> "none",
                   cases |-> [i \in 1..Len(cs) |-> CaseResponse(cs[i])]]
             ELSE [raises |-> case_raises(cs[CHOOSE i \in bad : \A j \in bad : i <= j]),
                   cases |-> <<>>]

(***************************************************************************)
(* src/models.py: the search kinds and the request body.                   *)
(***************************************************************************)
SearchType ==
    {"CASE_NUMBER", "COMPLAINANT", "RESPONDENT", "COMPLAINANT_ADVOCATE",
     "RESPONDENT_ADVOCATE", "INDUSTRY_TYPE", "JUDGE"}

search_type_mapping(search_type) ==
    CASE search_type = "CASE_NUMBER" -> 1
      [] search_type = "COMPLAINANT" -> 2
      [] search_type = "RESPONDENT" -> 3
      [] search_type = "COMPLAINANT_ADVOCATE" -> 4
      [] search_type = "RESPONDENT_ADVOCATE" -> 5
      [] search_type = "INDUSTRY_TYPE" -> 6
      [] search_type = "JUDGE" -> 7

\* A date key left out of the JSON body.
Omitted == Date(0, 0, 1)

\* CaseSearchRequest: the model built from a JSON body; a key left out takes
\* the default of its Field.
CaseSearchRequest(body) ==
    [state_id |-> body.state_id,
     commission_id |-> body.commission_id,
     search_value |-> body.search_value,
     from_date |-> IF body.from_date = Omitted THEN Date(2025, 1, 1)
                   ELSE body.from_date,
     to_date |-> IF body.to_date = Omitted THEN NoDate ELSE body.to_date]

NoPayload ==
    [commissionId |-> 0, dateRequestType |-> 0, fromDate |-> <<>>,
     toDate |-> <<>>, judgeId |-> <<>>, orderType |-> 0, serchType |-> 0,
     serchTypeValue |-> <<>>]

\* search_cases up to its await: the payload it builds.  int() raises
\* ValueError when commission_id is no integer literal.
search_cases_raises(request) == int_raises(request.commission_id)

search_payload(request, search_type, today) ==
    LET use_default == request.from_date = NoDate \/ request.to_date = NoDate
        range == get_default_date_range(today)
        from_date == IF use_default /\ request.from_date = NoDate
                     THEN range[1] ELSE request.from_date
        to_date == IF use_default /\ request.to_date = NoDate
                   THEN range[2] ELSE request.to_date
    IN  [commissionId |-> int(request.commission_id),
         dateRequestType |-> 1,
         fromDate |-> format_date_for_jagriti(from_date),
         toDate |-> format_date_for_jagriti(to_date),
         judgeId |-> <<>>,
         orderType |-> 1,
         serchType |-> search_type_mapping(search_type),
         serchTypeValue |-> request.search_value]

(***************************************************************************)
(* _make_jagriti_request after its await.  An upstream outcome is          *)
(* [net, http, json, body]: the transport failed (net = "transport"), or   *)
(* an HTTP status came back, with a body that parses as JSON or not.       *)
(***************************************************************************)
upstream_failed(outcome) ==
    \/ outcome.net # "ok"
    \/ outcome.http # 200
    \/ outcome.json # "ok"

\* _make_jagriti_request without the check of response.status_code.
make_jagriti_request_unchecked(outcome, store, h) ==
    IF outcome.net # "ok" THEN ParseError(store)
    ELSE IF outcome.json # "ok" THEN ParseError(store)
    ELSE parse_api_response(outcome.body, store, h)

make_jagriti_request(outcome, store, h) ==
    IF outcome.net # "ok" THEN ParseError(store)          \* caught, line 159
    ELSE IF outcome.http # 200 THEN ParseError(store)     \* line 147
    ELSE IF outcome.json # "ok" THEN ParseError(store)    \* json() raises
    ELSE parse_api_response(outcome.body, store, h)

\* _make_jagriti_request with a POST issued again after a failure.
after_response_retrying(outcome) ==
    IF upstream_failed(outcome) THEN "retry" ELSE "return"

\* How control leaves _make_jagriti_request once the outcome is known: every
\* path returns, none loops back to the POST.
after_response(outcome) == "return"

\* search_cases after its await: what the endpoint answers.
search_reply(outcome, store, h) ==
    LET api_response == make_jagriti_request(outcome, store, h)
        parsed == parse_cases(api_response)
    IN  [status |-> CASE parsed.raises = "none" -> 200
                      [] parsed.raises = "ValidationError" -> 400
                      [] OTHER -> 500,
         cases |-> parsed.cases,
         store |-> api_response.store]

(***************************************************************************)
(* The inputs of the search endpoints.                                     *)
(***************************************************************************)
BaseBody ==
    [state_id |-> <<"1", "1">>, commission_id |-> <<"1", "5">>,
     search_value |-> <<"K", "U">>, from_date |-> Omitted, to_date |-> Omitted]

SearchValues == {<<>>, <<" ">>, <<"a">>, <<" ", "a", "\t">>, <<" ", "K", "U", " ">>}

CommissionIds == {<<" ", "7">>, <<"x">>, <<>>}

FromDates == {Omitted, NoDate, Date(2024, 2, 1)}
ToDates == {Omitted, Date(2024, 12, 31)}

RequestBodies ==
    {[BaseBody EXCEPT !.search_value = v] : v \in SearchValues}
    \cup {[BaseBody EXCEPT !.commission_id = c] : c \in CommissionIds}
    \cup {[BaseBody EXCEPT !.search_value = <<"a">>, !.commission_id = <<"x">>]}
    \cup {[BaseBody EXCEPT !.from_date = f, !.to_date = t] :
        f \in FromDates, t \in ToDates}

\* What the host clock may read as today's date.
Todays == {Date(2024, 3, 30)}

(***************************************************************************)
(* What the portal may answer.                                             *)
(***************************************************************************)
PdfA == <<"p", "d", "f", ",", "Q", "U", "I", "=">>   \* decodes to "AB"
PdfB == <<"Q", "Q", "=", "=">>                        \* decodes to "A"

BaseCase ==
    [obj |-> TRUE,
     caseNumber |-> Str(<<"1">>),
     caseStageName |-> Str(<<"O", "p", "e", "n">>),
     caseFilingDate |-> Str(<<"2", "0", "2", "4">>),
     complainantName |-> Str(<<"K">>),
     complainantAdvocateName |-> None,
     respondentName |-> Str(<<"R">>),
     respondentAdvocateName |-> None,
     orderDocumentPath |-> None,
     documentBase64 |-> None,
     judgmentOrderDocumentBase64 |-> None]

\* "  Kumar   Lal ", in short; no document fields.
CasePlain ==
    [BaseCase EXCEPT !.complainantName =
                         Str(<<" ", " ", "K", " ", " ", " ", "L", " ">>),
                     !.caseStageName = Str(<<"\t", "O", "\n", " ", "n">>)]
CaseDocA == [BaseCase EXCEPT !.caseNumber = Str(<<"2">>), !.documentBase64 = Str(PdfA)]
CaseDocA2 ==
    [BaseCase EXCEPT !.caseNumber = Str(<<"3">>),
                     !.judgmentOrderDocumentBase64 = Str(PdfA)]
CaseDocB == [BaseCase EXCEPT !.caseNumber = Str(<<"4">>), !.documentBase64 = Str(PdfB)]
CasePath ==
    [BaseCase EXCEPT !.caseNumber = Str(<<"5">>),
                     !.orderDocumentPath = Str(<<"/", "o">>),
                     !.documentBase64 = Str(PdfB)]
\* "QUJ" ends inside a quad: binascii.Error.
CaseBadDoc ==
    [BaseCase EXCEPT !.caseNumber = Str(<<"6">>),
                     !.documentBase64 = Str(<<"Q", "U", "J">>),
                     !.judgmentOrderDocumentBase64 = Str(PdfB)]
\* "====" decodes to no bytes.
CaseEmptyDoc ==
    [BaseCase EXCEPT !.caseNumber = None,
                     !.documentBase64 = Str(<<"=", "=", "=", "=">>)]
CaseNumeric == [BaseCase EXCEPT !.caseNumber = Num(7)]
CaseNotObject == [BaseCase EXCEPT !.obj = FALSE]

CaseEntries ==
    {CasePlain, CaseDocA, CaseDocA2, CaseDocB, CasePath, CaseBadDoc,
     CaseEmptyDoc, CaseNumeric, CaseNotObject}

RECURSIVE SeqsUpTo(_, _)
SeqsUpTo(S, n) ==
    IF n = 0 THEN {<<>>}
    ELSE LET shorter == SeqsUpTo(S, n - 1)
         IN  shorter \cup {Append(q, x) : q \in shorter, x \in S}

CaseLists == SeqsUpTo(CaseEntries, MaxCases)

Data(shape, cases, items) == [shape |-> shape, cases |-> cases, items |-> items]

Body(dict, status, data) == [dict |-> dict, status |-> status, data |-> data]

\* The case list comes as the data array itself or, less often, under the
\* "cases" key of a data object.
Bodies ==
    {Body(TRUE, Num(200), Data("list", "list", items)) : items \in CaseLists}
    \cup {Body(TRUE, Num(200), Data("dict", "list", items)) :
            items \in SeqsUpTo(CaseEntries, 1) \cup {<<CasePlain, CaseDocB>>}}
    \cup {Body(TRUE, Num(200), Data("dict", c, <<>>)) : c \in {"absent", "null"}}
    \cup {Body(TRUE, Num(200), Data(shape, "absent", <<>>)) :
            shape \in {"missing", "other"}}
    \cup {Body(TRUE, st, Data("list", "list", <<CasePlain>>)) :
            st \in {Num(500), Str(<<"2", "0", "0">>), None}}
    \cup {Body(FALSE, None, Data("other", "absent", <<>>))}

NoBody == Body(FALSE, None, Data("other", "absent", <<>>))

Outcome(net, http, json, body) ==
    [net |-> net, http |-> http, json |-> json, body |-> body]

Outcomes ==
    {Outcome("ok", 200, "ok", b) : b \in Bodies}
    \cup {Outcome("transport", 0, "invalid", NoBody),
          Outcome("ok", 503, "invalid", NoBody),
          Outcome("ok", 404, "ok", Body(TRUE, Num(200), Data("list", "list", <<CasePlain>>))),
          Outcome("ok", 200, "invalid", NoBody)}

DocumentIds ==
    {document_id_of(b64decode(after_last_comma(PdfA)).bytes),
     document_id_of(b64decode(PdfB).bytes),
     [i \in 1..32 |-> "f"]}

(***************************************************************************)
(* The search endpoints (src/app/api/routers/cases.py) and the document    *)
(* endpoint (src/main.py).                                                 *)
(***************************************************************************)
Hosts == {Wildcard, Loopback, <<"h", ".", "i", "n">>}

Slots == 1..MaxInFlight

Idle == [pc |-> "idle", posts |-> 0]

EmptyStore == [i \in {} |-> <<>>]

(***************************************************************************)
(* `last` is a history variable: it records the step an endpoint has just  *)
(* taken, with its inputs and its answer, for the properties to read:      *)
(*   "rejected"  a search request answered without any upstream call       *)
(*   "posted"    a search request whose POST has been issued               *)
(*   "replied"   a search request answered after the upstream outcome      *)
(*   "document"  a GET /documents/{id}                                     *)
(* Forget clears it, and an endpoint takes a step only when it is clear.   *)
(* The program's own variables never read it, so every run of the program  *)
(* is still a run of the model, with Forget steps in between.              *)
(***************************************************************************)
NoEvent ==
    [ev |-> "none", slot |-> 0, kind |-> "", body |-> BaseBody, today |-> NoDate,
     payload |-> NoPayload, upstream |-> Outcome("transport", 0, "invalid", NoBody),
     status |-> 0, cases |-> <<>>, doc_id |-> <<>>, doc |-> <<>>]

SearchInit ==
    /\ HOST \in Hosts
    /\ document_store = EmptyStore
    /\ reqs = [s \in Slots |-> Idle]
    /\ last = NoEvent

\* The handler of POST /cases/by-<kind> up to the await of the POST: the
\* check of search_value, then search_cases up to client.post.  The request
\* takes the lowest free slot.
SearchStart(kind, body, today) ==
    /\ last = NoEvent
    /\ \E s \in Slots : reqs[s].pc = "idle"
    /\ LET slot == CHOOSE s \in Slots :
                       /\ reqs[s].pc = "idle"
                       /\ \A t \in Slots : reqs[t].pc = "idle" => s <= t
           request == CaseSearchRequest(body)
           event == [NoEvent EXCEPT !.slot = slot, !.kind = kind, !.body = body,
                                    !.today = today]
       IN  IF ~validate_search_value(request.search_value)
           THEN /\ last' = [event EXCEPT !.ev = "rejected", !.status = 400]
                /\ reqs' = [reqs EXCEPT ![slot] = Idle]
           ELSE IF search_cases_raises(request)
           THEN /\ last' = [event EXCEPT !.ev = "rejected", !.status = 400]
                /\ reqs' = [reqs EXCEPT ![slot] = Idle]
           ELSE /\ last' = [event EXCEPT !.ev = "posted",
                                         !.payload = search_payload(request, kind, today)]
                /\ reqs' = [reqs EXCEPT ![slot] = [pc |-> "await", posts |-> 1]]
    /\ UNCHANGED <<HOST, document_store>>
    /\ UNCHANGED cacheVars

\* The rest of the handler, once the POST has an outcome.
SearchFinish(slot, outcome) ==
    /\ last = NoEvent
    /\ reqs[slot].pc = "await"
    /\ IF after_response(outcome) = "retry"
       THEN /\ reqs' = [reqs EXCEPT ![slot].posts = @ + 1]
            /\ last' = [NoEvent EXCEPT !.ev = "posted", !.slot = slot,
                                       !.upstream = outcome]
            /\ UNCHANGED document_store
       ELSE LET reply == search_reply(outcome, document_store, HOST)
            IN  /\ document_store' = reply.store
                /\ reqs' = [reqs EXCEPT ![slot] = Idle]
                /\ last' = [NoEvent EXCEPT !.ev = "replied", !.slot = slot,
                                           !.upstream = outcome,
                                           !.status = reply.status,
                                           !.cases = reply.cases]
    /\ UNCHANGED HOST
    /\ UNCHANGED cacheVars

get_document_bytes(store, document_id) ==
    IF document_id \in DOMAIN store THEN store[document_id] ELSE <<>>

\* GET /documents/{document_id}: no bytes, or empty bytes, is a 404.
GetDocument(document_id) ==
    /\ last = NoEvent
    /\ LET data == get_document_bytes(document_store, document_id)
       IN  last' = [NoEvent EXCEPT !.ev = "document", !.doc_id = document_id,
                                   !.status = IF data = <<>> THEN 404 ELSE 200,
                                   !.doc = data]
    /\ UNCHANGED <<HOST, document_store, reqs>>
    /\ UNCHANGED cacheVars

(***************************************************************************)
(* The reference data cache: get_states and get_commissions                *)
(* (src/services.py), reached from src/app/api/routers/metadata.py.        *)
(*                                                                         *)
(* An entry of an upstream listing is a record of the four keys the code   *)
(* reads.  A key can be absent, which item.get(key, default) tells from a  *)
(* null: Missing is the absent key.                                        *)
(***************************************************************************)
Missing == [t |-> "missing", s |-> <<>>, n |-> 0]

\* item.get(key, default)
Get(v, default) == IF v.t = "missing" THEN default ELSE v

\* str(v) of a JSON value
str(v) ==
    CASE v.t = "str" -> v.s
      [] v.t = "int" -> Decimal(v.n, 1)
      [] v.t = "none" -> <<"N", "o", "n", "e">>

Item(obj, activeStatus, commissionNameEn, commissionId, circuitAdditionBenchStatus) ==
    [obj |-> obj, activeStatus |-> activeStatus,
     commissionNameEn |-> commissionNameEn, commissionId |-> commissionId,
     circuitAdditionBenchStatus |-> circuitAdditionBenchStatus]

\* The body of a listing: error and status are JSON values; shape tells
\* whether "data" is absent, a list, or something that is not a list.
Report(dict, error, status, shape, items) ==
    [dict |-> dict, error |-> error, status |-> status, shape |-> shape,
     items |-> items]

StateResponse(state_id, state_name) ==
    [state_id |-> state_id, state_name |-> state_name]

CommissionResponse(commission_id, commission_name, state_id) ==
    [commission_id |-> commission_id, commission_name |-> commission_name,
     state_id |-> state_id]

\* The GET got no usable body: the call raised, the HTTP status is not 200,
\* or the body is not JSON, not an object, or reports an error.
listing_refused(outcome) ==
    \/ outcome.net # "ok"
    \/ outcome.http # 200
    \/ outcome.json # "ok"
    \/ ~outcome.body.dict
    \/ outcome.body.error # Str("false")
    \/ outcome.body.status # Num(200)

\* The loop of _fetch_real_states without the check of seen_states.
RECURSIVE unique_states_repeating(_, _, _)
unique_states_repeating(items, states, seen_states) ==
    IF items = <<>> THEN [raises |-> FALSE, states |-> states]
    ELSE LET item == Head(items)
             name == Get(item.commissionNameEn, Str(<<>>))
             commission_name == upper(strip(name.s))
             commission_id == str(Get(item.commissionId, Str(<<>>)))
         IN  IF ~item.obj THEN [raises |-> TRUE, states |-> <<>>]
             ELSE IF ~item.activeStatus
             THEN unique_states_repeating(Tail(items), states, seen_states)
             ELSE IF ~IsStr(name) THEN [raises |-> TRUE, states |-> <<>>]
             ELSE IF /\ ~item.circuitAdditionBenchStatus
                     /\ commission_name # <<>>
                     /\ commission_id # <<>>
             THEN unique_states_repeating(Tail(items),
                                Append(states, StateResponse(commission_id, commission_name)),
                                seen_states)
             ELSE unique_states_repeating(Tail(items), states, seen_states)

\* The loop of _fetch_real_states over data['data'].
RECURSIVE unique_states(_, _, _)
unique_states(items, states, seen_states) ==
    IF items = <<>> THEN [raises |-> FALSE, states |-> states]
    ELSE LET item == Head(items)
             name == Get(item.commissionNameEn, Str(<<>>))
             commission_name == upper(strip(name.s))
             commission_id == str(Get(item.commissionId, Str(<<>>)))
         IN  IF ~item.obj THEN [raises |-> TRUE, states |-> <<>>]
             ELSE IF ~item.activeStatus
             THEN unique_states(Tail(items), states, seen_states)
             ELSE IF ~IsStr(name) THEN [raises |-> TRUE, states |-> <<>>]
             ELSE IF /\ ~item.circuitAdditionBenchStatus
                     /\ commission_name # <<>>
                     /\ commission_id # <<>>
                     /\ commission_name \notin seen_states
             THEN unique_states(Tail(items),
                                Append(states, StateResponse(commission_id, commission_name)),
                                seen_states \cup {commission_name})
             ELSE unique_states(Tail(items), states, seen_states)

\* _fetch_real_states: every failure, raised or not, is an empty list.
fetch_real_states(outcome) ==
    IF listing_refused(outcome) THEN <<>>
    ELSE IF outcome.body.shape # "list" THEN <<>>
    ELSE LET found == unique_states(outcome.body.items, <<>>, {})
         IN  IF found.raises THEN <<>> ELSE found.states

\* The loop of _fetch_real_commissions over data['data'].
RECURSIVE active_commissions(_, _, _)
active_commissions(items, commissions, state_id) ==
    IF items = <<>> THEN [raises |-> FALSE, commissions |-> commissions]
    ELSE LET item == Head(items)
             name == Get(item.commissionNameEn, Str(<<>>))
             commission_id == str(Get(item.commissionId, Str(<<>>)))
         IN  IF ~item.obj THEN [raises |-> TRUE, commissions |-> <<>>]
             ELSE IF ~item.activeStatus
             THEN active_commissions(Tail(items), commissions, state_id)
             ELSE IF ~IsStr(name) THEN [raises |-> TRUE, commissions |-> <<>>]
             ELSE active_commissions(Tail(items),
                      Append(commissions,
                             CommissionResponse(commission_id, name.s, state_id)),
                      state_id)

\* _fetch_real_commissions
fetch_real_commissions(state_id, outcome) ==
    IF listing_refused(outcome) THEN <<>>
    ELSE IF outcome.body.shape # "list" THEN <<>>
    ELSE LET found == active_commissions(outcome.body.items, <<>>, state_id)
         IN  IF found.raises THEN <<>> ELSE found.commissions

\* _states_cache is None, or a list.
Unset == [has |-> FALSE, list |-> <<>>]
Cached(list) == [has |-> TRUE, list |-> list]

\* if self._states_cache is not None
states_cache_ignored(cache) == FALSE
states_cache_hit(cache) == cache.has

\* _states_cache once get_states has the list of its fetch.
states_cache_after_never(cache, real_states) == cache
states_cache_after_always(cache, real_states) == Cached(real_states)
states_cache_after_extending(cache, real_states) ==
    IF real_states # <<>> THEN Cached(cache.list \o real_states) ELSE cache
states_cache_after(cache, real_states) ==
    IF real_states # <<>> THEN Cached(real_states) ELSE cache

\* if state_id in self._commissions_cache
commissions_cache_hit(cache, state_id) == state_id \in DOMAIN cache

\* _commissions_cache once get_commissions has the list of its fetch.
commissions_cache_after(cache, state_id, real_commissions) ==
    IF real_commissions # <<>>
    THEN [id \in DOMAIN cache \cup {state_id} |->
              IF id = state_id THEN real_commissions ELSE cache[id]]
    ELSE cache

\* _commissions_cache[state_id], as an entry that is unset or a list.
commissions_entry(cache, state_id) ==
    IF state_id \in DOMAIN cache THEN Cached(cache[state_id]) ELSE Unset

(***************************************************************************)
(* What the upstream can answer to the two listing GETs.                   *)
(***************************************************************************)
Goa == Item(TRUE, TRUE, Str(<<" ", "g", "o", "a">>), Num(11), FALSE)
Bihar == Item(TRUE, TRUE, Str(<<"B", "R">>), Str(<<"1", "2">>), FALSE)
Closed == Item(TRUE, FALSE, None, Num(13), FALSE)

StateItems == {Goa, Bihar}

District == Item(TRUE, TRUE, Str(<<"D", " ", "1">>), Num(21), Missing)
Shut == Item(TRUE, FALSE, Str(<<"D", "3">>), Num(23), Missing)

CommissionItems == {District, Shut}

NoReport == Report(FALSE, None, None, "missing", <<>>)

Refusals ==
    {Outcome("transport", 0, "invalid", NoReport),
     Outcome("ok", 503, "invalid", NoReport),
     Outcome("ok", 200, "invalid", NoReport),
     Outcome("ok", 200, "ok", Report(TRUE, Str(<<"t", "r", "u", "e">>), Num(500), "missing", <<>>)),
     Outcome("ok", 200, "ok", Report(TRUE, Str(<<"f", "a", "l", "s", "e">>), Num(200), "missing", <<>>)),
     Outcome("ok", 200, "ok", Report(TRUE, Str(<<"f", "a", "l", "s", "e">>), Num(200), "other", <<>>))}

Listings(items) ==
    {Outcome("ok", 200, "ok", Report(TRUE, Str(<<"f", "a", "l", "s", "e">>), Num(200), "list", l)) :
        l \in SeqsUpTo(items, MaxItems)}

StateOutcomes ==
    Refusals \cup Listings(StateItems)
    \cup {Outcome("ok", 200, "ok", Report(TRUE, Str(<<"f", "a", "l", "s", "e">>), Num(200), "list", l)) :
             l \in {<<Closed>>, <<Closed, Goa>>}}
CommissionOutcomes == Refusals \cup Listings(CommissionItems)

\* A wider choice of state entries: a second spelling of a name, a circuit
\* bench of the same name, a blank name, no id, and a null name.
GoaAgain == Item(TRUE, TRUE, Str(<<"G", "O", "A", " ">>), Num(12), FALSE)
Bench == Item(TRUE, TRUE, Str(<<"G", "o", "a">>), Num(14), TRUE)
Blank == Item(TRUE, TRUE, Str(<<" ">>), Num(15), FALSE)
Unnumbered == Item(TRUE, TRUE, Str(<<"U", "P">>), Missing, FALSE)
Nameless == Item(TRUE, TRUE, None, Num(16), FALSE)

ListedStates ==
    {Goa, GoaAgain, Bihar, Closed, Bench, Blank, Unnumbered, Nameless}

StateListings == Refusals \cup Listings(ListedStates)

StateIds == {<<"1", "1">>, <<"1", "2">>}

\* calls counts, per cache key, the calls that are awaiting their GET.
NoCalls == [states |-> 0, commissions |-> [id \in StateIds |-> 0]]

RECURSIVE flights(_, _)
flights(commissions, ids) ==
    IF ids = {} THEN 0
    ELSE LET id == CHOOSE i \in ids : TRUE
         IN  commissions[id] + flights(commissions, ids \ {id})

\* The calls awaiting a GET, over all keys.
in_flight == calls.states + flights(calls.commissions, StateIds)

\* How a get_states call that fetched got its list: from a listing the code
\* read to its end ("ok"), from a refusal ("failed"), or from a listing the
\* code gave up on ("odd").  A call served from the cache is "cache".
how_fetched(outcome) ==
    IF listing_refused(outcome) THEN "failed"
    ELSE IF outcome.body.shape = "missing" THEN "ok"
    ELSE IF outcome.body.shape = "list"
            /\ ~unique_states(outcome.body.items, <<>>, {}).raises
    THEN "ok"
    ELSE "odd"

NoFirst == [valid |-> FALSE, how |-> "", result |-> <<>>]

(***************************************************************************)
(* `ret` is a history variable like `last`: the step a cache call has just *)
(* taken.  "issued" is a call that missed the cache and sent its GET;      *)
(* "returned" is a call that returned, with the list it returned, whether  *)
(* it fetched, the upstream outcome it consumed and the cache entry of its *)
(* key before the step (before).  A get_states call may also start in the  *)
(* state a get_states call has just returned in: the two calls are then    *)
(* made one after the other, and the event of the second names the first   *)
(* (first).                                                                *)
(***************************************************************************)
NoReturn ==
    [ev |-> "none", op |-> "", state_id |-> <<>>, fetched |-> FALSE,
     upstream |-> Outcome("transport", 0, "invalid", NoReport),
     result |-> <<>>, before |-> Unset, first |-> NoFirst]

NoFetches == [states |-> 0, commissions |-> [id \in StateIds |-> 0]]

CacheInit ==
    /\ states_cache = Unset
    /\ commissions_cache = EmptyStore
    /\ calls = NoCalls
    /\ fetches = NoFetches
    /\ ret = NoReturn

\* The get_states call that has just returned, if one has.
just_returned ==
    IF ret.ev = "returned" /\ ret.op = "states"
    THEN [valid |-> TRUE,
          how |-> IF ret.fetched THEN how_fetched(ret.upstream) ELSE "cache",
          result |-> ret.result]
    ELSE NoFirst

\* get_states up to the await of the GET: the cached list is returned at
\* once; with no cached list the GET is issued.
GetStatesStart ==
    /\ ret = NoReturn \/ just_returned.valid
    /\ LET event == [NoReturn EXCEPT !.op = "states", !.before = states_cache,
                                     !.first = just_returned]
       IN  IF states_cache_hit(states_cache)
           THEN /\ ret' = [event EXCEPT !.ev = "returned",
                                        !.result = states_cache.list]
                /\ UNCHANGED <<calls, fetches>>
           ELSE /\ in_flight < MaxCalls
                /\ fetches.states < MaxFetches
                /\ ret' = [event EXCEPT !.ev = "issued"]
                /\ calls' = [calls EXCEPT !.states = @ + 1]
                /\ fetches' = [fetches EXCEPT !.states = @ + 1]
    /\ UNCHANGED <<states_cache, commissions_cache>>
    /\ UNCHANGED searchVars

\* The rest of get_states, once the GET has an outcome.
GetStatesFinish(outcome) ==
    /\ ret = NoReturn
    /\ calls.states > 0
    /\ LET real_states == fetch_real_states(outcome)
       IN  /\ states_cache' = states_cache_after(states_cache, real_states)
           /\ ret' = [NoReturn EXCEPT !.ev = "returned", !.op = "states",
                                      !.fetched = TRUE, !.upstream = outcome,
                                      !.result = real_states,
                                      !.before = states_cache]
    /\ calls' = [calls EXCEPT !.states = @ - 1]
    /\ UNCHANGED <<commissions_cache, fetches>>
    /\ UNCHANGED searchVars

\* get_commissions(state_id) up to the await of the GET.
GetCommissionsStart(state_id) ==
    /\ ret = NoReturn
    /\ LET event == [NoReturn EXCEPT !.op = "commissions", !.state_id = state_id,
                                     !.before = commissions_entry(commissions_cache, state_id)]
       IN  IF commissions_cache_hit(commissions_cache, state_id)
           THEN /\ ret' = [event EXCEPT !.ev = "returned",
                                        !.result = commissions_cache[state_id]]
                /\ UNCHANGED <<calls, fetches>>
           ELSE /\ in_flight < MaxCalls
                /\ fetches.commissions[state_id] < MaxFetches
                /\ ret' = [event EXCEPT !.ev = "issued"]
                /\ calls' = [calls EXCEPT !.commissions[state_id] = @ + 1]
                /\ fetches' = [fetches EXCEPT !.commissions[state_id] = @ + 1]
    /\ UNCHANGED <<states_cache, commissions_cache>>
    /\ UNCHANGED searchVars

\* The rest of get_commissions(state_id), once the GET has an outcome.
GetCommissionsFinish(state_id, outcome) ==
    /\ ret = NoReturn
    /\ calls.commissions[state_id] > 0
    /\ LET real_commissions == fetch_real_commissions(state_id, outcome)
       IN  /\ commissions_cache' =
                  commissions_cache_after(commissions_cache, state_id, real_commissions)
           /\ ret' = [NoReturn EXCEPT !.ev = "returned", !.op = "commissions",
                                      !.state_id = state_id,
                                      !.fetched = TRUE, !.upstream = outcome,
                                      !.result = real_commissions,
                                      !.before = commissions_entry(commissions_cache, state_id)]
    /\ calls' = [calls EXCEPT !.commissions[state_id] = @ - 1]
    /\ UNCHANGED <<states_cache, fetches>>
    /\ UNCHANGED searchVars

Forget ==
    /\ last # NoEvent \/ ret # NoReturn
    /\ last' = NoEvent
    /\ ret' = NoReturn
    /\ UNCHANGED <<HOST, document_store, reqs>>
    /\ UNCHANGED <<states_cache, commissions_cache, calls, fetches>>

Init == SearchInit /\ CacheInit

\* The search and document endpoints.
Next ==
    \/ \E kind \in SearchType, body \in RequestBodies, today \in Todays :
           SearchStart(kind, body, today)
    \/ \E slot \in Slots, outcome \in Outcomes : SearchFinish(slot, outcome)
    \/ \E document_id \in DocumentIds : GetDocument(document_id)
    \/ Forget

Spec == Init /\ [][Next]_vars

\* The reference data cache.  It shares no variable with the endpoints
\* above (search_cases never consults the cache), so the two are explored
\* apart.
CacheNext ==
    \/ GetStatesStart
    \/ \E outcome \in StateOutcomes : GetStatesFinish(outcome)
    \/ \E state_id \in StateIds : GetCommissionsStart(state_id)
    \/ \E state_id \in StateIds, outcome \in CommissionOutcomes :
           GetCommissionsFinish(state_id, outcome)
    \/ Forget

\* No cache call reads Config.HOST: it is left at its default.
CacheStart == Init /\ HOST = Wildcard

CacheSpec == CacheStart /\ [][CacheNext]_vars

\* get_states alone, against the wider choice of state entries.
StatesNext ==
    \/ GetStatesStart
    \/ \E outcome \in StateListings : GetStatesFinish(outcome)
    \/ Forget

StatesSpec == CacheStart /\ [][StatesNext]_vars

(***************************************************************************)
(* Vocabulary of the properties of the search and document endpoints.      *)
(***************************************************************************)
\* A search request has just been taken up (answered at once, or posted).
Started == last.ev \in {"rejected", "posted"} /\ last.kind \in SearchType

Replied == last.ev = "replied"

\* The upstream call failed: no HTTP answer, an HTTP status other than 200,
\* or a JSON object whose "status" is not 200.
CallFailed(o) ==
    \/ o.net # "ok"
    \/ o.http # 200
    \/ o.json = "ok" /\ o.body.dict /\ o.body.status # Num(200)

\* The upstream answered with a success status and a case list.
HasCaseList(o) ==
    /\ o.net = "ok" /\ o.http = 200 /\ o.json = "ok"
    /\ o.body.dict /\ o.body.status = Num(200)
    /\ \/ o.body.data.shape = "list"
       \/ o.body.data.shape = "dict" /\ o.body.data.cases = "list"

TextOrAbsent(v) == v.t \in {"str", "none"}

CaseFields ==
    {"caseNumber", "caseStageName", "caseFilingDate", "complainantName",
     "complainantAdvocateName", "respondentName", "respondentAdvocateName",
     "orderDocumentPath", "documentBase64", "judgmentOrderDocumentBase64"}

\* An entry that is an object all of whose fields are text or absent.
WellFormed(e) == e.obj /\ \A f \in CaseFields : TextOrAbsent(e[f])

\* The base64 text of an entry that has no direct document path.
Payload(e) == Or(e.documentBase64, e.judgmentOrderDocumentBase64)

PayloadBytes(e) == b64decode(strip(after_last_comma(Payload(e).s)))

\* The document of e comes as base64 only and decodes to at least one byte.
Base64Only(e) ==
    /\ WellFormed(e)
    /\ ~Truthy(e.orderDocumentPath)
    /\ Truthy(Payload(e))
    /\ PayloadBytes(e).ok /\ PayloadBytes(e).bytes # <<>>

\* The reply holds one record per entry of the upstream list, in its order.
OneRecordPerEntry ==
    /\ Replied /\ HasCaseList(last.upstream) /\ last.status = 200
    /\ Len(last.cases) = Len(last.upstream.body.data.items)

IsHexId(id) ==
    /\ Len(id) = 32
    /\ \A i \in 1..Len(id) : \E k \in 1..16 : HexChars[k] = id[i]

\* link is http://<host>:<port>/documents/<id> for the id given.
IsDocumentLink(link, id) ==
    \E host \in {HOST, Localhost} :
        link = <<"h", "t", "t", "p", ":", "/", "/">> \o host
               \o <<":", "8", "0", "0", "0">>
               \o <<"/", "d", "o", "c", "u", "m", "e", "n", "t", "s", "/">> \o id

\* The last 32 characters of a link.
LinkId(link) == SubSeq(link, Len(link) - 31, Len(link))

(***************************************************************************)
(* C1.  For every search endpoint, a search_value whose trimmed length is  *)
(* below 2 (the empty string included) fails validation: the request is    *)
(* answered 400 and no upstream call is made for it.                       *)
(***************************************************************************)
C1_ShortValueRejected ==
    (Started /\ Len(strip(last.body.search_value)) < 2)
        => /\ last.ev = "rejected"
           /\ last.status = 400
           /\ reqs[last.slot] = Idle

C1_Witness ==
    /\ last.ev = "rejected" /\ last.kind = "JUDGE"
    /\ last.body.search_value = <<" ", "a", "\t">>
    /\ last.body.commission_id = <<"1", "5">>

(***************************************************************************)
(* C2.  A search request makes at most one upstream round trip: one POST,  *)
(* never issued again, whatever its outcome; once the outcome is in, the   *)
(* request is answered and has nothing in flight.                          *)
(***************************************************************************)
C2_OneRoundTrip ==
    /\ \A s \in Slots : reqs[s].posts <= 1
    /\ Replied => reqs[last.slot] = Idle

C2_Witness ==
    /\ Replied
    /\ last.upstream.net = "transport"
    /\ \E s \in Slots : s # last.slot /\ reqs[s].pc = "await" /\ reqs[s].posts = 1

(***************************************************************************)
(* C3.  When the upstream call fails (no HTTP answer, an HTTP status other *)
(* than 200, or a body whose top-level status is not 200), the search      *)
(* answers 200 with an empty list of cases: no error reaches the caller.   *)
(***************************************************************************)
C3_FailedCallGivesEmptyList ==
    (Replied /\ CallFailed(last.upstream))
        => last.status = 200 /\ last.cases = <<>>

C3_Witness ==
    /\ Replied
    /\ last.upstream.http = 404
    /\ last.upstream.body.data.items = <<CasePlain>>
    /\ last.status = 200 /\ last.cases = <<>>

(***************************************************************************)
(* C4.  A failure local to one case entry (an entry that is not an object, *)
(* or one with a field that is not text) does not discard the rest: the    *)
(* search answers 200 with the records of the well-formed entries.         *)
(***************************************************************************)
C4_LocalFailureKeepsRest ==
    (Replied /\ HasCaseList(last.upstream))
        => LET items == last.upstream.body.data.items
               good == SelectSeq(items, WellFormed)
           IN  /\ last.status = 200
               /\ Len(last.cases) = Len(good)
               /\ \A i \in 1..Len(good) :
                      /\ last.cases[i].case_number
                             = clean_text_value(good[i].caseNumber)
                      /\ last.cases[i].complainant
                             = clean_text_value(good[i].complainantName)

(***************************************************************************)
(* Vocabulary of the properties of the reference data cache.               *)
(***************************************************************************)
\* A get_states call has just started, right after another one returned:
\* the two are calls made one after the other, ret.first the first, ret the
\* second.
TwoCallsInSequence ==
    /\ ret.op = "states"
    /\ ret.ev = "issued" \/ (ret.ev = "returned" /\ ~ret.fetched)
    /\ ret.first.valid

\* The upstream answered the first call's fetch, if it made one, with a
\* listing.
UpstreamAnswered == ret.first.how \in {"cache", "ok"}

\* The second call made no fetch and returned the list of the first.
SecondServedFromCache ==
    /\ ret.ev = "returned"
    /\ ~ret.fetched
    /\ ret.result = ret.first.result
    /\ ret.before = states_cache

(***************************************************************************)
(* C5, as stated.  Two get_states calls made one after the other against   *)
(* an upstream that answers successfully issue at most one upstream fetch  *)
(* in total: the second call is served from the cache and returns the same *)
(* list as the first.  It does not hold: a listing with no active,         *)
(* non-circuit-bench state is a successful answer that is not cached.      *)
(***************************************************************************)
C5_SecondCallFromCache ==
    (TwoCallsInSequence /\ UpstreamAnswered) => SecondServedFromCache

(***************************************************************************)
(* C5, amended.  Two get_states calls made one after the other against an  *)
(* upstream that answers successfully, the first call returning at least   *)
(* one state, issue at most one upstream fetch in total: the second call   *)
(* is served from the cache and returns the same list as the first.        *)
(***************************************************************************)
C5_SecondCallFromCacheAfterStates ==
    (TwoCallsInSequence /\ UpstreamAnswered /\ ret.first.result # <<>>)
        => SecondServedFromCache

C5_Witness ==
    /\ TwoCallsInSequence
    /\ ret.first.how = "ok"
    /\ Len(ret.first.result) = 2
    /\ ret.ev = "returned"
    /\ ret.result = ret.first.result
    /\ fetches.states = 1

(***************************************************************************)
(* C6, as stated.  Over any sequence and interleaving of get_states and    *)
(* get_commissions calls, at most one upstream fetch is issued per cache   *)
(* key (the states key, and each state_id for commissions).  It does not   *)
(* hold: a call that finds its key unset fetches, whether an earlier fetch *)
(* of the key is still in flight or came back empty.                       *)
(***************************************************************************)
C6_OneFetchPerKey ==
    /\ fetches.states <= 1
    /\ \A id \in StateIds : fetches.commissions[id] <= 1

(***************************************************************************)
(* C6, amended.  Over any sequence and interleaving of get_states and      *)
(* get_commissions calls, no upstream fetch is issued for a cache key once *)
(* the entry of that key is populated.                                     *)
(***************************************************************************)
C6_NoFetchOncePopulated ==
    [][/\ states_cache.has => fetches'.states = fetches.states
       /\ \A id \in StateIds :
             id \in DOMAIN commissions_cache
                => fetches'.commissions[id] = fetches.commissions[id]]_vars

C6_Witness ==
    /\ ret.ev = "returned" /\ ret.op = "commissions" /\ ~ret.fetched
    /\ fetches.commissions[ret.state_id] = 1
    /\ states_cache.has
    /\ fetches.states = 1
    /\ \E id \in StateIds : id # ret.state_id /\ calls.commissions[id] > 0

(***************************************************************************)
(* C7.  When the upstream fetch made by get_states fails, get_states       *)
(* returns an empty list and does not populate the states cache; a call    *)
(* that finds the cache unset issues a new fetch; the cache never holds    *)
(* the empty list of a failure.                                            *)
(***************************************************************************)
C7_FailureNotCached ==
    /\ (/\ ret.ev = "returned" /\ ret.op = "states" /\ ret.fetched
        /\ how_fetched(ret.upstream) # "ok")
          => /\ ret.result = <<>>
             /\ states_cache = ret.before
    /\ (TwoCallsInSequence /\ ret.first.how \notin {"cache", "ok"} /\ ~ret.before.has)
          => ret.ev = "issued"
    /\ states_cache.has => states_cache.list # <<>>

C7_Witness ==
    /\ TwoCallsInSequence
    /\ ret.first.how = "failed"
    /\ ret.ev = "issued"
    /\ fetches.states = 2
    /\ calls.states = 1
    /\ ~states_cache.has

(***************************************************************************)
(* C8.  When concurrent first callers of get_states (or of get_commissions *)
(* for the same state_id) both miss the cache and both fetch, both return  *)
(* the list of their own fetch, and a cache entry changes only to the      *)
(* complete list of the fetch of the call that has just returned (the last *)
(* writer's): it is never a partial or a mixed list.                       *)
(***************************************************************************)
C8_LastWriterWins ==
    [][/\ states_cache' # states_cache
            => /\ ret'.ev = "returned" /\ ret'.op = "states" /\ ret'.fetched
               /\ states_cache' = Cached(fetch_real_states(ret'.upstream))
       /\ \A id \in StateIds :
             commissions_entry(commissions_cache', id)
                   # commissions_entry(commissions_cache, id)
                => /\ ret'.ev = "returned" /\ ret'.op = "commissions"
                   /\ ret'.fetched /\ ret'.state_id = id
                   /\ commissions_cache'[id]
                          = fetch_real_commissions(id, ret'.upstream)
       /\ (ret'.ev = "returned" /\ ret'.fetched /\ ret'.op = "states")
            => /\ ret'.result = fetch_real_states(ret'.upstream)
               /\ ret'.result # <<>> => states_cache' = Cached(ret'.result)
       /\ (ret'.ev = "returned" /\ ret'.fetched /\ ret'.op = "commissions")
            => /\ ret'.result = fetch_real_commissions(ret'.state_id, ret'.upstream)
               /\ ret'.result # <<>>
                    => commissions_entry(commissions_cache', ret'.state_id)
                           = Cached(ret'.result)]_vars

C8_Witness ==
    /\ ret.ev = "returned" /\ ret.op = "states" /\ ret.fetched
    /\ ret.before.has
    /\ ret.result # <<>>
    /\ ret.before.list # ret.result
    /\ states_cache = Cached(ret.result)
    /\ fetches.states = 2

(***************************************************************************)
(* C9.  For an entry whose document comes only as base64 and decodes to    *)
(* at least one byte, the document_link of its record is                   *)
(* http://<host>:<port>/documents/<id> with an id of 32 hex characters,    *)
(* and get_document_bytes(id) returns the decoded bytes of the entry; the  *)
(* document endpoint serves exactly what the store holds under an id.      *)
(***************************************************************************)
C9_Base64DocumentLink ==
    /\ OneRecordPerEntry =>
         \A i \in 1..Len(last.cases) :
            LET e == last.upstream.body.data.items[i]
                link == last.cases[i].document_link
            IN  Base64Only(e) =>
                  /\ Len(link) > 32
                  /\ IsHexId(LinkId(link))
                  /\ IsDocumentLink(link, LinkId(link))
                  /\ get_document_bytes(document_store, LinkId(link))
                         = PayloadBytes(e).bytes
    /\ (last.ev = "document" /\ last.doc_id \in DOMAIN document_store)
           => last.status = 200 /\ last.doc = document_store[last.doc_id]

C9_Witness ==
    /\ OneRecordPerEntry
    /\ last.upstream.body.data.items = <<CasePlain, CaseDocA>>
    /\ HOST = Wildcard
    /\ get_document_bytes(document_store, LinkId(last.cases[2].document_link))
           = <<65, 66>>

(***************************************************************************)
(* C10.  Two entries with the same base64 payload get the same document    *)
(* id, in one response or across searches: the id of a link is the id      *)
(* under which the store holds the payload's bytes, and the store never    *)
(* holds the same bytes under two ids.                                     *)
(***************************************************************************)
C10_SamePayloadSameId ==
    /\ OneRecordPerEntry =>
         \A i, j \in 1..Len(last.cases) :
            LET ei == last.upstream.body.data.items[i]
                ej == last.upstream.body.data.items[j]
                idi == LinkId(last.cases[i].document_link)
                idj == LinkId(last.cases[j].document_link)
            IN  (Base64Only(ei) /\ Base64Only(ej) /\ Payload(ei) = Payload(ej))
                  => /\ idi = idj
                     /\ idi \in DOMAIN document_store
                     /\ document_store[idi] = PayloadBytes(ei).bytes
    /\ \A k1, k2 \in DOMAIN document_store :
           document_store[k1] = document_store[k2] => k1 = k2

C10_Witness ==
    /\ OneRecordPerEntry
    /\ last.upstream.body.data.items = <<CaseDocA, CaseDocA2>>
    /\ last.cases[1].document_link = last.cases[2].document_link
    /\ last.cases[1].case_number # last.cases[2].case_number
    /\ DOMAIN document_store = {LinkId(last.cases[1].document_link)}

(***************************************************************************)
(* More vocabulary of the search endpoints.                                *)
(***************************************************************************)
\* Every entry of the list is an object whose fields are text or absent.
AllWellFormed(items) == \A i \in 1..Len(items) : WellFormed(items[i])

\* The document of e comes as base64 only, and the base64 does not decode
\* or decodes to no byte.
Undecodable(e) ==
    /\ WellFormed(e)
    /\ ~Truthy(e.orderDocumentPath)
    /\ Truthy(Payload(e))
    /\ ~PayloadBytes(e).ok \/ PayloadBytes(e).bytes = <<>>

\* The ids of the documents the entries of a list carry as base64.
DocumentsOf(items) ==
    {document_id_of(PayloadBytes(items[i]).bytes) :
        i \in {j \in 1..Len(items) : Base64Only(items[j])}}

(***************************************************************************)
(* C11.  When the base64 document of an entry fails to decode or decodes   *)
(* to an empty payload, the entry is still returned as a record, with an   *)
(* empty document_link; it adds nothing to the document store (the store   *)
(* gains only the documents of the entries that do decode), and the search *)
(* answers 200 with one record per entry.                                  *)
(***************************************************************************)
C11_UndecodableGivesEmptyLink ==
    [][(/\ last'.ev = "replied"
        /\ HasCaseList(last'.upstream)
        /\ AllWellFormed(last'.upstream.body.data.items))
          => LET items == last'.upstream.body.data.items
             IN  /\ last'.status = 200
                 /\ Len(last'.cases) = Len(items)
                 /\ \A i \in 1..Len(items) :
                        Undecodable(items[i])
                          => /\ last'.cases[i].document_link = <<>>
                             /\ last'.cases[i].case_number
                                    = clean_text_value(items[i].caseNumber)
                 /\ (\A i \in 1..Len(items) : ~Base64Only(items[i]))
                        => document_store' = document_store
                 /\ (DOMAIN document_store') \ (DOMAIN document_store)
                        \subseteq DocumentsOf(items)]_vars

C11_Witness ==
    /\ Replied /\ last.status = 200
    /\ last.upstream.body.data.items = <<CaseBadDoc, CaseEmptyDoc>>
    /\ Len(last.cases) = 2
    /\ last.cases[1].document_link = <<>>
    /\ last.cases[1].case_number = <<"6">>
    /\ last.cases[2].document_link = <<>>
    /\ document_store = EmptyStore

(***************************************************************************)
(* C12.  The document store never evicts or alters an entry: whatever step *)
(* the service takes (a search that stores other documents, a search that  *)
(* fails, a document request), every id the store held before the step is  *)
(* still held after it with the same bytes, and get_document_bytes returns *)
(* them; a document request answers the stored bytes and changes nothing.  *)
(***************************************************************************)
C12_StoreKeepsDocuments ==
    [][/\ \A id \in DOMAIN document_store :
              /\ id \in DOMAIN document_store'
              /\ get_document_bytes(document_store', id) = document_store[id]
       /\ last'.ev = "document"
              => /\ document_store' = document_store
                 /\ last'.doc = get_document_bytes(document_store, last'.doc_id)]_vars

C12_Witness ==
    /\ Replied /\ CallFailed(last.upstream)
    /\ Cardinality(DOMAIN document_store) = 2
    /\ \E id \in DOMAIN document_store : document_store[id] = <<65, 66>>
    /\ \E id \in DOMAIN document_store : document_store[id] = <<65>>

\* The upstream answered a JSON object with the success status.
SuccessStatus(o) ==
    /\ o.net = "ok" /\ o.http = 200 /\ o.json = "ok"
    /\ o.body.dict /\ o.body.status = Num(200)

\* The text of a field of an entry that is text or absent.
TextOf(v) == IF v.t = "str" THEN v.s ELSE <<>>

\* The record r is the one built from the well-formed entry e.
BuiltFrom(r, e) ==
    /\ r.case_number = clean_text_value(e.caseNumber)
    /\ r.case_stage = clean_text_value(e.caseStageName)
    /\ r.filing_date = TextOf(e.caseFilingDate)
    /\ r.complainant = clean_text_value(e.complainantName)
    /\ r.complainant_advocate = clean_text_value(e.complainantAdvocateName)
    /\ r.respondent = clean_text_value(e.respondentName)
    /\ r.respondent_advocate = clean_text_value(e.respondentAdvocateName)
    /\ Truthy(e.orderDocumentPath) => r.document_link = e.orderDocumentPath.s
    /\ Base64Only(e) =>
           r.document_link
               = document_url(HOST, document_id_of(PayloadBytes(e).bytes))
    /\ (~Truthy(e.orderDocumentPath) /\ ~Base64Only(e)) => r.document_link = <<>>

(***************************************************************************)
(* C13.  For an upstream body with the success status whose case list      *)
(* (the data array itself, or the list under the data object) holds n      *)
(* well-formed entries, the search returns exactly n records, the i-th     *)
(* built from the i-th entry; a data value of any other shape gives an     *)
(* empty list.                                                             *)
(***************************************************************************)
C13_RecordsInUpstreamOrder ==
    /\ (/\ Replied /\ HasCaseList(last.upstream)
        /\ AllWellFormed(last.upstream.body.data.items))
          => LET items == last.upstream.body.data.items
             IN  /\ last.status = 200
                 /\ Len(last.cases) = Len(items)
                 /\ \A i \in 1..Len(items) : BuiltFrom(last.cases[i], items[i])
    /\ (Replied /\ SuccessStatus(last.upstream) /\ ~HasCaseList(last.upstream))
          => last.status = 200 /\ last.cases = <<>>

C13_Witness ==
    /\ Replied /\ last.status = 200
    /\ last.upstream.body.data.shape = "dict"
    /\ last.upstream.body.data.items = <<CasePlain, CaseDocB>>
    /\ Len(last.cases) = 2
    /\ last.cases[1].case_number = <<"1">>
    /\ last.cases[1].complainant = <<"K", " ", "L">>
    /\ last.cases[2].case_number = <<"4">>
    /\ last.cases[2].document_link # <<>>

\* The caller supplied the date: the key is in the body, with a date.
Supplied(d) == d \notin {Omitted, NoDate}

(***************************************************************************)
(* C14.  The dates sent upstream are the caller's dates when supplied and  *)
(* the defaults otherwise, each bound on its own: without a from_date the  *)
(* payload has fromDate = today minus 30 days, without a to_date it has    *)
(* toDate = today, and a supplied date is sent as it is.  It does not      *)
(* hold: a body that leaves from_date out is sent with 2025-01-01, the     *)
(* default of the field in CaseSearchRequest.                              *)
(***************************************************************************)
C14_DatesDefaultIndependently ==
    (last.ev = "posted" /\ last.kind \in SearchType)
        => /\ last.payload.fromDate
                 = format_date_for_jagriti(
                       IF Supplied(last.body.from_date) THEN last.body.from_date
                       ELSE MinusDays(last.today, 30))
           /\ last.payload.toDate
                 = format_date_for_jagriti(
                       IF Supplied(last.body.to_date) THEN last.body.to_date
                       ELSE last.today)

RecordFields ==
    {"case_number", "case_stage", "filing_date", "complainant",
     "complainant_advocate", "respondent", "respondent_advocate",
     "document_link"}

\* The fields that hold free text: the numbers, names and stage of a case.
TextFields == RecordFields \ {"filing_date", "document_link"}

\* t has no whitespace at either end and no two whitespace characters in a
\* row, and its only whitespace character is the space.
Normalized(t) ==
    /\ t # <<>> => (t[1] \notin Whitespace /\ t[Len(t)] \notin Whitespace)
    /\ \A i \in 1..Len(t) : t[i] \in Whitespace => t[i] = " "
    /\ \A i \in 1..(Len(t) - 1) :
           ~(t[i] \in Whitespace /\ t[i + 1] \in Whitespace)

\* t is a string (a sequence of characters), not a JSON value such as null.
IsText(t) == \A k \in DOMAIN t : k \in 1..Len(t)

\* The upstream key a field of the record is read from.
UpstreamKey(f) ==
    CASE f = "case_number" -> "caseNumber"
      [] f = "case_stage" -> "caseStageName"
      [] f = "filing_date" -> "caseFilingDate"
      [] f = "complainant" -> "complainantName"
      [] f = "complainant_advocate" -> "complainantAdvocateName"
      [] f = "respondent" -> "respondentName"
      [] f = "respondent_advocate" -> "respondentAdvocateName"

(***************************************************************************)
(* C15.  Every record a search returns has the eight fields, each a        *)
(* string: a field missing or null in the upstream entry is the empty      *)
(* string (the document_link when the entry has no document field), and    *)
(* the text fields have no whitespace at either end and no run of          *)
(* whitespace: "  K   L " is returned as "K L".                            *)
(***************************************************************************)
C15_RecordFieldsAreCleanStrings ==
    /\ Replied =>
          \A i \in 1..Len(last.cases) :
             /\ DOMAIN last.cases[i] = RecordFields
             /\ \A f \in RecordFields : IsText(last.cases[i][f])
             /\ \A f \in TextFields : Normalized(last.cases[i][f])
    /\ OneRecordPerEntry =>
          \A i \in 1..Len(last.cases) :
             LET e == last.upstream.body.data.items[i]
             IN  /\ \A f \in RecordFields \ {"document_link"} :
                        e[UpstreamKey(f)] = None => last.cases[i][f] = <<>>
                 /\ (/\ e.orderDocumentPath = None /\ e.documentBase64 = None
                     /\ e.judgmentOrderDocumentBase64 = None)
                        => last.cases[i].document_link = <<>>
                 /\ e.complainantName = Str(<<" ", " ", "K", " ", " ", " ", "L", " ">>)
                        => last.cases[i].complainant = <<"K", " ", "L">>

C15_Witness ==
    /\ Replied /\ last.status = 200
    /\ last.upstream.body.data.items = <<CaseEmptyDoc, CasePlain>>
    /\ Len(last.cases) = 2
    /\ last.cases[1].case_number = <<>>
    /\ last.cases[2].complainant = <<"K", " ", "L">>
    /\ last.cases[2].case_stage = <<"O", " ", "n">>
    /\ last.cases[2].complainant_advocate = <<>>
    /\ last.cases[2].document_link = <<>>

(***************************************************************************)
(* Vocabulary of the properties of the state list.                         *)
(***************************************************************************)
\* The upstream answered a listing of objects whose names, on the active
\* ones, are text or absent.
ProperListing(o) ==
    /\ ~listing_refused(o) /\ o.body.shape = "list"
    /\ \A i \in 1..Len(o.body.items) :
           /\ o.body.items[i].obj
           /\ o.body.items[i].activeStatus =>
                 o.body.items[i].commissionNameEn.t \in {"str", "missing"}

\* The normalized name and the id of an entry.
NameOf(item) == normalize_state_name(Get(item.commissionNameEn, Str(<<>>)).s)
IdOf(item) == str(Get(item.commissionId, Str(<<>>)))

ActiveState(item) == item.activeStatus /\ ~item.circuitAdditionBenchStatus

NamedState(item) == ActiveState(item) /\ NameOf(item) # <<>> /\ IdOf(item) # <<>>

\* The indices of the entries among items[i] with chosen[i] that are the
\* first of their name.
FirstOfName(items, chosen) ==
    {i \in chosen : \A j \in chosen : j < i => NameOf(items[j]) # NameOf(items[i])}

\* The k-th smallest element of a set of indices.
Nth(indices, k) ==
    CHOOSE i \in indices : Cardinality({j \in indices : j <= i}) = k

\* The StateRefs of the entries at the given indices, in upstream order.
StateRefs(items, indices) ==
    [k \in 1..Cardinality(indices) |->
        StateResponse(IdOf(items[Nth(indices, k)]), NameOf(items[Nth(indices, k)]))]

\* A get_states call has just returned the list of its own fetch of a
\* proper listing.
ReturnedListing ==
    /\ ret.ev = "returned" /\ ret.op = "states" /\ ret.fetched
    /\ ProperListing(ret.upstream)

NoSharedName(list) ==
    \A i, j \in 1..Len(list) : list[i].state_name = list[j].state_name => i = j

HasDirectPath(e) == WellFormed(e) /\ Truthy(e.orderDocumentPath)

\* The bytes the base64 fields of an entry would decode to.
CarriedBytes(e) == PayloadBytes(e).bytes

(***************************************************************************)
(* C17.  The direct document path takes precedence: when an entry has a    *)
(* non-empty direct document path, the document_link of its record is that *)
(* path, its base64 fields are not decoded even if present, and the entry  *)
(* leaves the document store unchanged: a reply all of whose entries have  *)
(* a direct path changes nothing in the store, and in any reply the store  *)
(* gains only the documents of the entries without a direct path.          *)
(***************************************************************************)
C17_DirectPathTakesPrecedence ==
    [][(/\ last'.ev = "replied"
        /\ HasCaseList(last'.upstream)
        /\ AllWellFormed(last'.upstream.body.data.items))
          => LET items == last'.upstream.body.data.items
                 direct == {i \in 1..Len(items) : HasDirectPath(items[i])}
                 others == (1..Len(items)) \ direct
             IN  /\ Len(last'.cases) = Len(items)
                 /\ \A i \in direct :
                        last'.cases[i].document_link = items[i].orderDocumentPath.s
                 /\ others = {} => document_store' = document_store
                 /\ \A id \in (DOMAIN document_store') \ (DOMAIN document_store) :
                        \E i \in others :
                            /\ Base64Only(items[i])
                            /\ id = document_id_of(CarriedBytes(items[i]))]_vars

C17_Witness ==
    /\ Replied /\ last.status = 200
    /\ last.upstream.body.data.items = <<CasePath, CaseDocA>>
    /\ last.cases[1].document_link = <<"/", "o">>
    /\ Truthy(CasePath.documentBase64)
    /\ document_id_of(CarriedBytes(CasePath)) \notin DOMAIN document_store
    /\ document_id_of(CarriedBytes(CaseDocA)) \in DOMAIN document_store

\* The text is no integer literal: once the blanks around it and one
\* leading sign are set aside, it is empty or holds something that is no
\* decimal digit.
NotIntegerLiteral(s) ==
    LET t == strip(s)
        signed == t # <<>> /\ t[1] \in {"+", "-"}
        digits == IF signed THEN SubSeq(t, 2, Len(t)) ELSE t
    IN  \/ digits = <<>>
        \/ \E i \in 1..Len(digits) :
               digits[i] \notin {"0", "1", "2", "3", "4", "5", "6", "7", "8", "9"}

(***************************************************************************)
(* C18.  A search request whose search_value is valid but whose            *)
(* commission_id is not an integer literal is rejected as a caller-input   *)
(* error: it is answered 400 at once, with no payload built and no POST    *)
(* issued or left in flight, and the document store, the caches and the    *)
(* count of upstream fetches are as they were.                             *)
(***************************************************************************)
C18_BadCommissionIdRejected ==
    [][(/\ last'.ev \in {"rejected", "posted"}
        /\ last'.kind \in SearchType
        /\ validate_search_value(last'.body.search_value)
        /\ NotIntegerLiteral(last'.body.commission_id))
          => /\ last'.ev = "rejected"
             /\ last'.status = 400
             /\ last'.payload = NoPayload
             /\ last'.cases = <<>>
             /\ reqs'[last'.slot] = Idle
             /\ reqs' = reqs
             /\ document_store' = document_store
             /\ states_cache' = states_cache
             /\ commissions_cache' = commissions_cache
             /\ fetches' = fetches]_vars

C18_Witness ==
    /\ last.ev = "rejected" /\ last.status = 400
    /\ last.kind = "CASE_NUMBER"
    /\ last.body.search_value = <<"K", "U">>
    /\ last.body.commission_id = <<"x">>
    /\ Cardinality(DOMAIN document_store) = 1
====
